---- MODULE Spec2Model ----
(***************************************************************************)
(* Model of scripts/generate_source_map.py: the scan of the source         *)
(* directory (generate_tree), the line counter, the box-drawing tree, the  *)
(* nested Modules section, the totals and the write of README.md.          *)
(*                                                                         *)
(* A file name is a sequence of one-character strings, a path is a         *)
(* sequence of names below the scan root (<<>> is the root itself), a file *)
(* content and the generated document are sequences of line records.       *)
(***************************************************************************)
EXTENDS Integers, Sequences, FiniteSets, TLC

VARIABLES fs, pc, denied, reread, tree, md, prior, runs, last

vars == <<fs, pc, denied, reread, tree, md, prior, runs, last>>

----------------------------------------------------------------------------
(* Bounds of the model *)

MaxEntries == 3
MaxDepth == 3
MaxFaults == 1
MaxRuns == 2
MaxRerunEntries == 1

----------------------------------------------------------------------------
(* Names *)

a_rs == <<"a", ".", "r", "s">>
main_rs == <<"m", "a", "i", "n", ".", "r", "s">>
README_md == <<"R", "E", "A", "D", "M", "E", ".", "m", "d">>
h_rs == <<".", "h", ".", "r", "s">>
c_txt == <<"c", ".", "t", "x", "t">>
target == <<"t", "a", "r", "g", "e", "t">>
node_modules ==
  <<"n", "o", "d", "e", "_", "m", "o", "d", "u", "l", "e", "s">>
pycache == <<"_", "_", "p", "y", "c", "a", "c", "h", "e", "_", "_">>
cli == <<"c", "l", "i">>

FileNames == {a_rs, main_rs, README_md, h_rs, c_txt}
DirNames == {cli, target, main_rs}

(* Code point of the characters that occur in the names. *)
Ord(c) ==
  CASE c = "." -> 46 [] c = "/" -> 47
    [] c = "A" -> 65 [] c = "D" -> 68 [] c = "E" -> 69 [] c = "M" -> 77
    [] c = "R" -> 82 [] c = "_" -> 95
    [] c = "a" -> 97 [] c = "c" -> 99 [] c = "d" -> 100 [] c = "e" -> 101
    [] c = "g" -> 103 [] c = "h" -> 104 [] c = "i" -> 105 [] c = "l" -> 108
    [] c = "m" -> 109 [] c = "n" -> 110 [] c = "o" -> 111 [] c = "p" -> 112
    [] c = "r" -> 114 [] c = "s" -> 115 [] c = "t" -> 116 [] c = "u" -> 117
    [] c = "x" -> 120 [] c = "y" -> 121

(* Python's str comparison: lexicographic by code point. *)
RECURSIVE StrLess(_, _)
StrLess(a, b) ==
  IF b = <<>> THEN FALSE
  ELSE IF a = <<>> THEN TRUE
  ELSE IF Ord(Head(a)) # Ord(Head(b)) THEN Ord(Head(a)) < Ord(Head(b))
  ELSE StrLess(Tail(a), Tail(b))

Min(S) == CHOOSE x \in S : \A y \in S : x = y \/ StrLess(x, y)

(* sorted(...) of a set of sibling names. *)
RECURSIVE sorted(_)
sorted(S) ==
  IF S = {} THEN <<>> ELSE <<Min(S)>> \o sorted(S \ {Min(S)})

startswith(s, p) == Len(s) >= Len(p) /\ SubSeq(s, 1, Len(p)) = p

(* str.rfind("."), 0-based, -1 when there is no dot. *)
rfind_dot(name) ==
  LET I == {i \in 1..Len(name) : name[i] = "."}
  IN IF I = {} THEN -1 ELSE (CHOOSE i \in I : \A j \in I : j <= i) - 1

(* pathlib's PurePath.suffix *)
suffix(name) ==
  LET i == rfind_dot(name)
  IN IF 0 < i /\ i < Len(name) - 1
     THEN SubSeq(name, i + 1, Len(name)) ELSE <<>>

is_rust_file(name) == suffix(name) = <<".", "r", "s">>

RECURSIVE as_posix(_)
as_posix(path) ==
  IF path = <<>> THEN <<>>
  ELSE IF Len(path) = 1 THEN path[1]
  ELSE path[1] \o <<"/">> \o as_posix(Tail(path))

NoDescription == "No description available."

(* The keys of DESCRIPTIONS that the names of the model can form. *)
DESCRIPTIONS ==
  (main_rs :> "Application entry point; initialises CLI and main runtime.")
  @@ (cli :> "Command-line argument parsing and flag structures.")

describe(path) ==
  LET rel == as_posix(path)
  IN IF rel \in DOMAIN DESCRIPTIONS THEN DESCRIPTIONS[rel] ELSE NoDescription

----------------------------------------------------------------------------
(* Lines and file contents *)

Line(k, nm, n, pre, conn, rel, desc, grp) ==
  [k |-> k, nm |-> nm, n |-> n, pre |-> pre, conn |-> conn, rel |-> rel,
   desc |-> desc, grp |-> grp]

Plain(k) == Line(k, <<>>, 0, <<>>, "", <<>>, "", <<>>)

Text(chars) == Line("text", chars, 0, <<>>, "", <<>>, "", <<>>)

ContentA == << Text(<<"x">>), Text(<<" ", "/", "/", "x">>), Text(<<" ">>) >>
ContentB ==
  << Text(<<" ", "x">>), Text(<<"/", "/", "/">>), Text(<<"/">>), Text(<<>>) >>
Contents == {ContentA, ContentB}

RECURSIVE lstrip(_)
lstrip(s) == IF s # <<>> /\ Head(s) = " " THEN lstrip(Tail(s)) ELSE s

RECURSIVE rstrip(_)
rstrip(s) ==
  IF s # <<>> /\ s[Len(s)] = " " THEN rstrip(SubSeq(s, 1, Len(s) - 1)) ELSE s

strip(s) == rstrip(lstrip(s))

(* The test of line 99 on one line of a file.  A line of a generated       *)
(* document is non-empty and never starts with "//" unless it is blank.    *)
Counted(l) ==
  IF l.k = "text"
  THEN LET stripped == strip(l.nm)
       IN stripped # <<>>
          /\ ~(startswith(stripped, <<"/", "/", "/">>)
               \/ startswith(stripped, <<"/", "/">>))
  ELSE l.k # "blank"

RECURSIVE CountLines(_)
CountLines(content) ==
  IF content = <<>> THEN 0
  ELSE (IF Counted(Head(content)) THEN 1 ELSE 0) + CountLines(Tail(content))

line_count_noexcept(f, path, bad) ==
  IF path \notin DOMAIN f \/ f[path].kind # "file" THEN 0
  ELSE IF path \in bad THEN -1
  ELSE CountLines(f[path].content)

(* line_count: 0 when the open or the read raises (also on a directory). *)
line_count(f, path, bad) ==
  IF path \notin DOMAIN f \/ f[path].kind # "file" \/ path \in bad THEN 0
  ELSE CountLines(f[path].content)

----------------------------------------------------------------------------
(* The file system *)

Children(f, base) ==
  {p[Len(p)] : p \in {q \in DOMAIN f : Len(q) = Len(base) + 1
                                       /\ SubSeq(q, 1, Len(base)) = base}}

ExclusionList == {target, node_modules, pycache}

Skipped_nolist(name) == startswith(name, <<".">>)

Skipped(name) == startswith(name, <<".">>) \/ name \in ExclusionList

Keep_rsonly(name) == is_rust_file(name)

Keep(name) == is_rust_file(name) \/ name = README_md

NoDirs == [n \in {} |-> 0]

EmptyNode == [files |-> <<>>, dirs |-> NoDirs]

RECURSIVE FileRecords(_, _, _, _)
FileRecords(f, base, names, bad) ==
  IF names = <<>> THEN <<>>
  ELSE LET name == Head(names)
           p == base \o <<name>>
           rest == FileRecords(f, base, Tail(names), bad)
       IN IF ~Skipped(name) /\ f[p].kind = "file" /\ Keep(name)
          THEN << <<name, describe(p), line_count(f, p, bad)>> >> \o rest
          ELSE rest

RECURSIVE generate_tree(_, _, _)
generate_tree(f, base, bad) ==
  IF base \in bad THEN EmptyNode
  ELSE LET entries == sorted(Children(f, base))
           kept == {n \in Children(f, base) :
                      ~Skipped(n) /\ f[base \o <<n>>].kind = "dir"}
       IN [files |-> FileRecords(f, base, entries, bad),
           dirs |-> [n \in kept |-> generate_tree(f, base \o <<n>>, bad)]]

----------------------------------------------------------------------------
(* The box-drawing tree *)

TreeLine(k, prefix, connector, name) ==
  Line(k, name, 0, prefix, connector, <<>>, "", <<>>)

(* items of lines 152-160: the directories, sorted, then the file records *)
Items_filesfirst(t) ==
  LET dnames == sorted(DOMAIN t.dirs)
  IN [i \in 1..Len(t.files) |-> <<"file", t.files[i][1]>>]
     \o [i \in 1..Len(dnames) |-> <<"dir", dnames[i]>>]

Items(t) ==
  LET dnames == sorted(DOMAIN t.dirs)
  IN [i \in 1..Len(dnames) |-> <<"dir", dnames[i]>>]
     \o [i \in 1..Len(t.files) |-> <<"file", t.files[i][1]>>]

RECURSIVE build_tree_visual(_, _)
RECURSIVE VisualFrom(_, _, _, _)

(* the loop of lines 163-184 from index idx (1-based) on; the box-drawing *)
(* glyphs are written with the ASCII characters + | and -               *)
VisualFrom(t, items, idx, prefix) ==
  IF idx > Len(items) THEN <<>>
  ELSE LET is_last_item == idx = Len(items)
           connector == IF is_last_item THEN "+-- " ELSE "|-- "
           extension == IF is_last_item THEN "    " ELSE "|   "
           name == items[idx][2]
           here ==
             IF items[idx][1] = "dir"
             THEN <<TreeLine("treedir", prefix, connector, name)>>
                  \o build_tree_visual(t.dirs[name], prefix \o <<extension>>)
             ELSE <<TreeLine("treefile", prefix, connector, name)>>
       IN here \o VisualFrom(t, items, idx + 1, prefix)

build_tree_visual_skipempty(t, prefix) ==
  LET nonempty == {n \in DOMAIN t.dirs :
                     t.dirs[n].files # <<>> \/ DOMAIN t.dirs[n].dirs # {}}
      pruned == [files |-> t.files, dirs |-> [n \in nonempty |-> t.dirs[n]]]
  IN VisualFrom(pruned, Items(pruned), 1, prefix)

build_tree_visual(t, prefix) == VisualFrom(t, Items(t), 1, prefix)

----------------------------------------------------------------------------
(* The Modules section *)

write_section(title) == <<Plain("blank"), title, Plain("blank")>>

Bullet(filename, rel, lines, desc) ==
  Line("bullet", filename, lines, <<>>, "", rel,
       IF desc # NoDescription THEN desc ELSE "", <<>>)

RECURSIVE write_file_list(_, _)
write_file_list(folder_path, files) ==
  IF files = <<>> THEN <<>>
  ELSE <<Bullet(files[1][1], as_posix(folder_path \o <<files[1][1]>>),
                files[1][3], files[1][2])>>
       \o write_file_list(folder_path, Tail(files))

Heading(hashes, dirname, desc) ==
  Line("heading", dirname, hashes, <<>>, "", <<>>,
       IF desc # NoDescription THEN desc ELSE "", <<>>)

RECURSIVE write_directory(_, _, _)
RECURSIVE DirectoriesFrom(_, _, _, _)

(* the loop of lines 215-234 over the sorted names *)
DirectoriesFrom(base, t, names, level) ==
  IF names = <<>> THEN <<>>
  ELSE LET dirname == Head(names)
           subtree == t.dirs[dirname]
           full == base \o <<dirname>>
           heading == Heading(3 + level, dirname, describe(full))
           listing == IF subtree.files # <<>>
                      THEN write_file_list(full, subtree.files)
                      ELSE <<Plain("placeholder")>>
           below == IF DOMAIN subtree.dirs # {}
                    THEN write_directory(full, subtree, level + 1)
                    ELSE <<>>
       IN write_section(heading) \o listing \o below
          \o DirectoriesFrom(base, t, Tail(names), level)

write_directory_flat(base, t, level) ==
  DirectoriesFrom(base, t, sorted(DOMAIN t.dirs), 0)

write_directory(base, t, level) ==
  DirectoriesFrom(base, t, sorted(DOMAIN t.dirs), level)

----------------------------------------------------------------------------
(* Totals *)

RECURSIVE SumLines(_)
SumLines(files) ==
  IF files = <<>> THEN 0 ELSE files[1][3] + SumLines(Tail(files))

RECURSIVE count_total_lines(_)
RECURSIVE LinesBelow(_, _)
LinesBelow(t, names) ==
  IF names = <<>> THEN 0
  ELSE count_total_lines(t.dirs[Head(names)]) + LinesBelow(t, Tail(names))

count_total_lines(t) == SumLines(t.files) + LinesBelow(t, sorted(DOMAIN t.dirs))

RECURSIVE count_total_files(_)
RECURSIVE FilesBelow(_, _)
FilesBelow(t, names) ==
  IF names = <<>> THEN 0
  ELSE count_total_files(t.dirs[Head(names)]) + FilesBelow(t, Tail(names))

count_total_files_toponly(t) == Len(t.files)

count_total_files(t) == Len(t.files) + FilesBelow(t, sorted(DOMAIN t.dirs))

(* the format spec ",": the decimal groups of three digits, high first *)
RECURSIVE Thousands(_)
Thousands(n) ==
  IF n < 1000 THEN <<n>> ELSE Thousands(n \div 1000) \o <<n % 1000>>

----------------------------------------------------------------------------
(* The document of generate_source_map *)

Total(k, n, grp) == Line(k, <<>>, n, <<>>, "", <<>>, "", grp)

EntryLine(lines, desc) == Line("entry", main_rs, lines, <<>>, "", main_rs, desc, <<>>)

Footer(now) == Line("credit", <<>>, now, <<>>, "", <<>>, "", <<>>)

EntryPoint(f, rereadFails) ==
  LET main_path == <<main_rs>>
  IN IF main_path \in DOMAIN f
     THEN <<EntryLine(IF rereadFails THEN 0 ELSE line_count(f, main_path, {}),
                      describe(main_path))>>
     ELSE <<>>

Document(t, f, rereadFails, now) ==
  << Plain("title"), Plain("blank"), Plain("warning"), Plain("donotedit"),
     Plain("blank"), Plain("overview"), Plain("blank"),
     Total("totalfiles", count_total_files(t), <<>>),
     Total("totallines", 0, Thousands(count_total_lines(t))),
     Plain("language"), Plain("blank"), Plain("structure"), Plain("blank"),
     Plain("fence"), Plain("treeroot") >>
  \o build_tree_visual(t, <<>>)
  \o <<Plain("fence")>>
  \o write_section(Plain("entrypoint"))
  \o EntryPoint(f, rereadFails)
  \o write_section(Plain("modules"))
  \o write_directory(<<>>, t, 0)
  \o <<Plain("blank"), Plain("rule"), Plain("blank"), Footer(now)>>

----------------------------------------------------------------------------
(* State machine *)

OUTPUT_FILE == <<README_md>>

File(content) == [kind |-> "file", content |-> content]
Dir == [kind |-> "dir", content |-> <<>>]

NoFiles == [p \in {} |-> Dir]

Put(f, p, e) == [q \in DOMAIN f \cup {p} |-> IF q = p THEN e ELSE f[q]]

DirPaths(f) == {<<>>} \cup {p \in DOMAIN f : f[p].kind = "dir"}

Snapshot(f) ==
  IF OUTPUT_FILE \in DOMAIN f
  THEN [exists |-> TRUE, content |-> f[OUTPUT_FILE].content]
  ELSE [exists |-> FALSE, content |-> <<>>]

NoLast == [ok |-> FALSE, doc |-> <<>>]

Init ==
  /\ fs = NoFiles
  /\ pc = "idle"
  /\ denied = {}
  /\ reread = FALSE
  /\ tree = EmptyNode
  /\ md = <<>>
  /\ prior = Snapshot(NoFiles)
  /\ runs = 0
  /\ last = NoLast

(* The directory before the first run: a file appears under a directory. *)
CreateFile(limit) ==
  /\ pc = "idle" /\ runs = 0
  /\ Cardinality(DOMAIN fs) < limit
  /\ \E parent \in DirPaths(fs), name \in FileNames, content \in Contents :
       /\ Len(parent) < MaxDepth
       /\ parent \o <<name>> \notin DOMAIN fs
       /\ fs' = Put(fs, parent \o <<name>>, File(content))
  /\ UNCHANGED <<pc, denied, reread, tree, md, prior, runs, last>>

MakeDir(limit) ==
  /\ pc = "idle" /\ runs = 0
  /\ Cardinality(DOMAIN fs) < limit
  /\ \E parent \in DirPaths(fs), name \in DirNames :
       /\ Len(parent) < MaxDepth
       /\ parent \o <<name>> \notin DOMAIN fs
       /\ fs' = Put(fs, parent \o <<name>>, Dir)
  /\ UNCHANGED <<pc, denied, reread, tree, md, prior, runs, last>>

(* line 258: the scan; bad holds the directories whose listing raises      *)
(* PermissionError and the files whose open or read raises.                *)
Scan ==
  /\ pc = "idle"
  /\ \E bad \in SUBSET (DOMAIN fs \cup {<<>>}) :
       /\ Cardinality(bad) <= MaxFaults
       /\ denied' = bad
       /\ tree' = generate_tree(fs, <<>>, bad)
  /\ prior' = Snapshot(fs)
  /\ pc' = "scanned"
  /\ UNCHANGED <<fs, reread, md, runs, last>>

(* whether the open of line 290 can raise: only a file can be read at all *)
SecondRead(f) ==
  IF <<main_rs>> \in DOMAIN f /\ f[<<main_rs>>].kind = "file"
  THEN BOOLEAN ELSE {FALSE}

(* lines 259-307: totals, tree, entry point, modules, footer; the second   *)
(* read of main.rs (line 290) fails or not on its own.                     *)
Assemble ==
  /\ pc = "scanned"
  /\ \E rereadFails \in SecondRead(fs) :
       /\ reread' = rereadFails
       /\ md' = Document(tree, fs, rereadFails, runs)
  /\ pc' = "assembled"
  /\ UNCHANGED <<fs, denied, tree, prior, runs, last>>

(* line 310, write_text: open(mode "w") creates or truncates the file *)
WriteOpen ==
  /\ pc = "assembled"
  /\ fs' = Put(fs, OUTPUT_FILE, File(<<>>))
  /\ pc' = "opened"
  /\ UNCHANGED <<denied, reread, tree, md, prior, runs, last>>

(* the open raises: nothing is touched, the exception ends the run *)
OpenFail ==
  /\ pc = "assembled"
  /\ pc' = "failed"
  /\ UNCHANGED <<fs, denied, reread, tree, md, prior, runs, last>>

(* the write and the close succeed *)
WriteData ==
  /\ pc = "opened"
  /\ fs' = Put(fs, OUTPUT_FILE, File(md))
  /\ pc' = "done"
  /\ UNCHANGED <<denied, reread, tree, md, prior, runs, last>>

PartialLengths == {0, Len(md) \div 2}

(* the write or the flush raises after part of the text reached the file *)
WriteFail ==
  /\ pc = "opened"
  /\ \E k \in PartialLengths :
       fs' = Put(fs, OUTPUT_FILE, File(SubSeq(md, 1, k)))
  /\ pc' = "failed"
  /\ UNCHANGED <<denied, reread, tree, md, prior, runs, last>>

Next ==
  \/ CreateFile(MaxEntries)
  \/ MakeDir(MaxEntries)
  \/ Scan
  \/ Assemble
  \/ WriteOpen
  \/ OpenFail
  \/ WriteData
  \/ WriteFail

Spec == Init /\ [][Next]_vars

(* The script is started again after a run has ended; the clock has moved. *)
Rerun ==
  /\ pc \in {"done", "failed"}
  /\ runs + 1 < MaxRuns
  /\ last' = [ok |-> pc = "done" /\ denied = {} /\ ~reread, doc |-> md]
  /\ runs' = runs + 1
  /\ pc' = "idle"
  /\ denied' = {}
  /\ reread' = FALSE
  /\ tree' = EmptyNode
  /\ md' = <<>>
  /\ UNCHANGED <<fs, prior>>

NextRerun ==
  \/ CreateFile(MaxRerunEntries)
  \/ MakeDir(MaxRerunEntries)
  \/ Scan
  \/ Assemble
  \/ WriteOpen
  \/ OpenFail
  \/ WriteData
  \/ WriteFail
  \/ Rerun

SpecRerun == Init /\ [][NextRerun]_vars

----------------------------------------------------------------------------
(* Reading the tree and the document back *)

RECURSIVE NodePaths(_)
NodePaths(t) ==
  {<<>>} \cup UNION {{<<n>> \o q : q \in NodePaths(t.dirs[n])} :
                       n \in DOMAIN t.dirs}

RECURSIVE NodeAt(_, _)
NodeAt(t, p) == IF p = <<>> THEN t ELSE NodeAt(t.dirs[Head(p)], Tail(p))

(* the file records of the tree, each as <<directory path, index>> *)
RecordSet(t) ==
  UNION {{<<p, i>> : i \in 1..Len(NodeAt(t, p).files)} : p \in NodePaths(t)}

RecordOf(t, r) == NodeAt(t, r[1]).files[r[2]]

RecordPath(t, r) == r[1] \o <<RecordOf(t, r)[1]>>

RECURSIVE SumOfRecords(_, _)
SumOfRecords(t, S) ==
  IF S = {} THEN 0
  ELSE LET r == CHOOSE x \in S : TRUE
       IN RecordOf(t, r)[3] + SumOfRecords(t, S \ {r})

Largest(S) == IF S = {} THEN 0 ELSE CHOOSE i \in S : \A j \in S : j <= i

LineOf(d, k) == d[CHOOSE i \in 1..Len(d) : d[i].k = k]

RECURSIVE GroupsValue(_)
GroupsValue(grp) ==
  IF grp = <<>> THEN 0
  ELSE GroupsValue(SubSeq(grp, 1, Len(grp) - 1)) * 1000 + grp[Len(grp)]

TotalFilesShown(d) == LineOf(d, "totalfiles").n
TotalLinesShown(d) == GroupsValue(LineOf(d, "totallines").grp)

(* the lines of the box-drawing tree; the depth of a line is the number of *)
(* continuation columns before its connector                               *)
VisualIdx(d) == {i \in 1..Len(d) : d[i].k \in {"treedir", "treefile"}}

VParent(d, i) ==
  Largest({j \in VisualIdx(d) : j < i /\ Len(d[j].pre) + 1 = Len(d[i].pre)})

RECURSIVE VPath(_, _)
VPath(d, i) == IF i = 0 THEN <<>> ELSE VPath(d, VParent(d, i)) \o <<d[i].nm>>

(* the headings and bullets of the Modules section *)
HeadIdx(d) == {i \in 1..Len(d) : d[i].k = "heading"}
BulletIdx(d) == {i \in 1..Len(d) : d[i].k = "bullet"}

HParent(d, i) == Largest({j \in HeadIdx(d) : j < i /\ d[j].n + 1 = d[i].n})

RECURSIVE HPath(_, _)
HPath(d, i) == IF i = 0 THEN <<>> ELSE HPath(d, HParent(d, i)) \o <<d[i].nm>>

Owner(d, i) == Largest({j \in HeadIdx(d) : j < i})

(* the posix paths shown anywhere in the tree or in the Modules section *)
ShownInVisual(d) == {as_posix(VPath(d, i)) : i \in VisualIdx(d)}
ShownInModules(d) ==
  {as_posix(HPath(d, i)) : i \in HeadIdx(d)} \cup {d[i].rel : i \in BulletIdx(d)}

IsFile(p) == p \in DOMAIN fs /\ fs[p].kind = "file"
IsDir(p) == p = <<>> \/ (p \in DOMAIN fs /\ fs[p].kind = "dir")

HasRecord(t, p) ==
  /\ p # <<>>
  /\ SubSeq(p, 1, Len(p) - 1) \in NodePaths(t)
  /\ \E i \in 1..Len(NodeAt(t, SubSeq(p, 1, Len(p) - 1)).files) :
       NodeAt(t, SubSeq(p, 1, Len(p) - 1)).files[i][1] = p[Len(p)]

TheRecord(t, p) ==
  LET fl == NodeAt(t, SubSeq(p, 1, Len(p) - 1)).files
  IN fl[CHOOSE i \in 1..Len(fl) : fl[i][1] = p[Len(p)]]

----------------------------------------------------------------------------
(* C1: the Total Files value of the Overview is the number of file records *)
(* reachable from the root of the tree and the Total Lines value is the    *)
(* sum of the line counts of exactly those records; both are stated over   *)
(* the set of records, which has no visiting order.                        *)
TotalsMatchRecords ==
  pc = "assembled" =>
    /\ TotalFilesShown(md) = Cardinality(RecordSet(tree))
    /\ TotalLinesShown(md) = SumOfRecords(tree, RecordSet(tree))

NestedRecordsCounted ==
  /\ pc = "assembled"
  /\ tree.files # <<>>
  /\ \E r \in RecordSet(tree) : Len(r[1]) >= 1 /\ RecordOf(tree, r)[3] > 0
  /\ TotalFilesShown(md) >= 2

----------------------------------------------------------------------------
(* Ordering of the entries of one level *)

VisualSiblings(d, i, j) ==
  i \in VisualIdx(d) /\ j \in VisualIdx(d) /\ i < j
  /\ Len(d[i].pre) = Len(d[j].pre) /\ VParent(d, i) = VParent(d, j)

(* in the tree: directories first, each group ascending by name *)
VisualOrdered(d) ==
  \A i, j \in VisualIdx(d) :
    VisualSiblings(d, i, j) =>
      /\ ~(d[i].k = "treefile" /\ d[j].k = "treedir")
      /\ d[i].k = d[j].k => StrLess(d[i].nm, d[j].nm)

(* in the Modules section: the headings of one parent ascend by name and   *)
(* the bullets under one heading ascend by name                            *)
ModulesGroupsOrdered(d) ==
  /\ \A i, j \in HeadIdx(d) :
       (i < j /\ d[i].n = d[j].n /\ HParent(d, i) = HParent(d, j))
         => StrLess(d[i].nm, d[j].nm)
  /\ \A i, j \in BulletIdx(d) :
       (i < j /\ Owner(d, i) = Owner(d, j)) => StrLess(d[i].nm, d[j].nm)

(* the files of directory h and the child directories of h are one level *)
SameLevel(d, b, c) ==
  b \in BulletIdx(d) /\ c \in HeadIdx(d)
  /\ Owner(d, b) # 0 /\ HParent(d, c) = Owner(d, b)
  /\ d[c].n = d[Owner(d, b)].n + 1

(* C3 as stated: at every level of the visual tree and of the Modules      *)
(* section the directory entries come before the file entries, and each    *)
(* group is in ascending order by name.                                    *)
DirectoriesBeforeFilesEverywhere ==
  pc = "assembled" =>
    /\ VisualOrdered(md)
    /\ ModulesGroupsOrdered(md)
    /\ \A b \in BulletIdx(md), c \in HeadIdx(md) : SameLevel(md, b, c) => c < b

(* C3 as amended: in the visual tree the directories of a level come       *)
(* before its files; in the Modules section the file bullets of a          *)
(* directory come before the headings of its child directories; in both,   *)
(* directories among themselves and files among themselves are in          *)
(* ascending order by name.                                                *)
OrderingOfLevels ==
  pc = "assembled" =>
    /\ VisualOrdered(md)
    /\ ModulesGroupsOrdered(md)
    /\ \A b \in BulletIdx(md), c \in HeadIdx(md) : SameLevel(md, b, c) => b < c

MixedLevelRendered ==
  /\ pc = "assembled"
  /\ \E i, j \in VisualIdx(md) :
       VisualSiblings(md, i, j) /\ md[i].k = "treedir" /\ md[j].k = "treefile"
       /\ StrLess(md[j].nm, md[i].nm)
  /\ \E b \in BulletIdx(md), c \in HeadIdx(md) : SameLevel(md, b, c)

----------------------------------------------------------------------------
(* Exclusion by name *)

InExclusionSet(name) ==
  \/ name = <<"t", "a", "r", "g", "e", "t">>
  \/ name = <<"n", "o", "d", "e", "_", "m", "o", "d", "u", "l", "e", "s">>
  \/ name = <<"_", "_", "p", "y", "c", "a", "c", "h", "e", "_", "_">>

HiddenName(name) == (name # <<>> /\ name[1] = ".") \/ InExclusionSet(name)

HiddenPath(p) == \E i \in 1..Len(p) : HiddenName(p[i])

Visible(f) == [p \in {q \in DOMAIN f : ~HiddenPath(q)} |-> f[p]]

(* C4: an entry whose own name, or the name of one of its ancestors below  *)
(* the root, starts with "." or is target, node_modules or __pycache__ is  *)
(* shown neither in the visual tree nor in the Modules section and adds    *)
(* nothing to Total Files and Total Lines: the totals are those of the     *)
(* same directory without these entries.                                   *)
ExcludedSubtreesInvisible ==
  pc = "assembled" =>
    /\ \A p \in DOMAIN fs :
         HiddenPath(p) =>
           /\ as_posix(p) \notin ShownInVisual(md)
           /\ as_posix(p) \notin ShownInModules(md)
           /\ ~HasRecord(tree, p)
           /\ p \notin NodePaths(tree)
    /\ TotalFilesShown(md)
         = Cardinality(RecordSet(generate_tree(Visible(fs), <<>>, denied)))
    /\ TotalLinesShown(md)
         = LET v == generate_tree(Visible(fs), <<>>, denied)
           IN SumOfRecords(v, RecordSet(v))

RustFileUnderExcludedDirectory ==
  /\ pc = "assembled"
  /\ denied = {}
  /\ \E p \in DOMAIN fs :
       /\ IsFile(p) /\ Len(p) = 2
       /\ p[1] = target /\ p[2] = a_rs
       /\ CountLines(fs[p].content) > 0
  /\ \E p \in DOMAIN fs : IsFile(p) /\ p = <<h_rs>>
  /\ TotalFilesShown(md) = 0

----------------------------------------------------------------------------
(* Inclusion of files *)

HasRsExtension(name) ==
  Len(name) > 3 /\ SubSeq(name, Len(name) - 2, Len(name)) = <<".", "r", "s">>

Qualifies(name) ==
  HasRsExtension(name)
  \/ name = <<"R", "E", "A", "D", "M", "E", ".", "m", "d">>

(* the listing of a directory above p, the root included, raises *)
BelowDenied(p) == \E i \in 0..(Len(p) - 1) : SubSeq(p, 1, i) \in denied

ReachedByScan(p) == ~HiddenPath(p) /\ ~BelowDenied(p)

RECURSIVE SumOfCounts(_)
SumOfCounts(S) ==
  IF S = {} THEN 0
  ELSE LET p == CHOOSE x \in S : TRUE
       IN (IF p \in denied THEN 0 ELSE CountLines(fs[p].content))
          + SumOfCounts(S \ {p})

(* C5 as stated: every file under the scan root has a file record in the   *)
(* tree if and only if its extension is ".rs" or its name is README.md.    *)
EveryFileAppearsIffQualifying ==
  pc \in {"scanned", "assembled"} =>
    \A p \in DOMAIN fs :
      IsFile(p) => (HasRecord(tree, p) <=> Qualifies(p[Len(p)]))

(* C5 as amended: every file that the scan reaches (no excluded name on    *)
(* its path, no ancestor directory whose listing fails) has a file record  *)
(* if and only if its extension is ".rs" or its name is README.md; the     *)
(* tree holds no other record, and Total Files and Total Lines are those   *)
(* of the reached qualifying files.                                        *)
ReachedFileAppearsIffQualifying ==
  LET Q == {p \in DOMAIN fs :
              IsFile(p) /\ ReachedByScan(p) /\ Qualifies(p[Len(p)])}
  IN /\ pc \in {"scanned", "assembled"} =>
          /\ \A p \in DOMAIN fs :
               (IsFile(p) /\ ReachedByScan(p))
                 => (HasRecord(tree, p) <=> Qualifies(p[Len(p)]))
          /\ {RecordPath(tree, r) : r \in RecordSet(tree)} = Q
          /\ Cardinality(RecordSet(tree)) = Cardinality(Q)
     /\ pc = "assembled" =>
          /\ TotalFilesShown(md) = Cardinality(Q)
          /\ TotalLinesShown(md) = SumOfCounts(Q)

QualifyingAndOtherFilesScanned ==
  /\ pc = "assembled"
  /\ IsFile(<<c_txt>>) /\ ~HasRecord(tree, <<c_txt>>)
  /\ IsFile(<<README_md>>) /\ HasRecord(tree, <<README_md>>)
  /\ \E p \in DOMAIN fs :
       IsFile(p) /\ HasRsExtension(p[Len(p)]) /\ HasRecord(tree, p)
  /\ TotalFilesShown(md) = 2

----------------------------------------------------------------------------
(* Failures during the scan *)

Ideal == generate_tree(fs, <<>>, {})

FileNamesOf(t, p) ==
  [i \in 1..Len(NodeAt(t, p).files) |-> NodeAt(t, p).files[i][1]]

SameDirectory(p) ==
  /\ p \in NodePaths(tree)
  /\ FileNamesOf(tree, p) = FileNamesOf(Ideal, p)
  /\ DOMAIN NodeAt(tree, p).dirs = DOMAIN NodeAt(Ideal, p).dirs

SameFile(p) == HasRecord(tree, p) /\ TheRecord(tree, p) = TheRecord(Ideal, p)

IdealFiles == {RecordPath(Ideal, r) : r \in RecordSet(Ideal)}

(* C7 as stated: a directory whose listing fails is present and empty, a   *)
(* qualifying file whose read fails is present with count 0, and every     *)
(* other directory and file has the record it has without any failure.     *)
ScanFailuresAreLocal ==
  pc = "scanned" =>
    /\ \A p \in denied \cap NodePaths(Ideal) :
         p \in NodePaths(tree) /\ NodeAt(tree, p) = EmptyNode
    /\ \A p \in denied \cap IdealFiles :
         HasRecord(tree, p) /\ TheRecord(tree, p)[3] = 0
    /\ \A p \in NodePaths(Ideal) \ denied : SameDirectory(p)
    /\ \A p \in IdealFiles \ denied : SameFile(p)

(* C7 as amended: the scan always returns a tree; a directory reached by   *)
(* the scan whose listing fails is present and empty, a qualifying file    *)
(* reached by the scan whose read fails is present with count 0; every     *)
(* other directory and file that is not below a failing directory has the  *)
(* record it has without any failure; what lies below a failing directory  *)
(* is absent from the tree.                                                *)
ScanFailuresAreLocalOutsideFailedSubtrees ==
  pc = "scanned" =>
    /\ \A p \in denied \cap NodePaths(Ideal) :
         ~BelowDenied(p) => p \in NodePaths(tree) /\ NodeAt(tree, p) = EmptyNode
    /\ \A p \in denied \cap IdealFiles :
         ~BelowDenied(p) => HasRecord(tree, p) /\ TheRecord(tree, p)[3] = 0
    /\ \A p \in NodePaths(Ideal) \ denied : ~BelowDenied(p) => SameDirectory(p)
    /\ \A p \in IdealFiles \ denied : ~BelowDenied(p) => SameFile(p)
    /\ \A p \in NodePaths(tree) : p \in NodePaths(Ideal) /\ ~BelowDenied(p)
    /\ \A r \in RecordSet(tree) :
         RecordPath(tree, r) \in IdealFiles /\ ~BelowDenied(RecordPath(tree, r))

ListingFailureHidesSubtree ==
  /\ pc = "scanned"
  /\ \E p \in denied :
       /\ p # <<>> /\ IsDir(p) /\ p \in NodePaths(tree)
       /\ NodeAt(Ideal, p) # EmptyNode /\ NodeAt(tree, p) = EmptyNode

----------------------------------------------------------------------------
(* Directories in the Modules section and in the tree *)

HeadingsOf(d, p) == {i \in HeadIdx(d) : HPath(d, i) = p}

VisualLinesOf(d, p) == {i \in VisualIdx(d) : VPath(d, i) = p}

EmptyDirectories ==
  {p \in NodePaths(tree) \ {<<>>} :
     NodeAt(tree, p).files = <<>> /\ DOMAIN NodeAt(tree, p).dirs = {}}

PlaceholderFollows(d, p) ==
  \E h \in HeadingsOf(d, p) :
    d[h + 1].k = "blank" /\ d[h + 2].k = "placeholder"

(* C8 as stated: a directory without files and child directories has its   *)
(* heading and the placeholder line in the Modules section and no line in  *)
(* the visual tree.                                                        *)
EmptyDirectoryOmittedFromVisual ==
  pc = "assembled" =>
    \A p \in EmptyDirectories :
      PlaceholderFollows(md, p) /\ VisualLinesOf(md, p) = {}

(* C8 as amended: a directory without files and child directories has its  *)
(* heading and the placeholder line in the Modules section, and in the     *)
(* visual tree exactly one line, its own name with the separator, with no  *)
(* line beneath it.                                                        *)
EmptyDirectoryIsLeafOfVisual ==
  pc = "assembled" =>
    \A p \in EmptyDirectories :
      /\ PlaceholderFollows(md, p)
      /\ Cardinality(VisualLinesOf(md, p)) = 1
      /\ \A i \in VisualLinesOf(md, p) :
           /\ md[i].k = "treedir"
           /\ \A j \in VisualIdx(md) : VParent(md, j) # i

EmptyDirectoryRendered ==
  /\ pc = "assembled"
  /\ \E p \in EmptyDirectories : Len(p) = 2
  /\ \E p \in EmptyDirectories : Len(p) = 1
  /\ \E p \in NodePaths(tree) \ {<<>>} : p \notin EmptyDirectories

(* C9: every directory of the tree other than the root, at depth d, has    *)
(* exactly one heading in the Modules section, with 3 + d "#"; after the   *)
(* heading comes one bullet per file of the directory, or exactly one      *)
(* placeholder line when it has no file (also when it has child            *)
(* directories); the headings of its child directories come after that.    *)
ModulesStructure ==
  pc = "assembled" =>
    /\ \A p \in NodePaths(tree) \ {<<>>} :
         LET H == HeadingsOf(md, p)
             files == NodeAt(tree, p).files
             nf == Len(files)
             body == IF nf > 0 THEN nf ELSE 1
         IN /\ Cardinality(H) = 1
            /\ \A h \in H :
                 /\ md[h].n = 3 + (Len(p) - 1)
                 /\ md[h].nm = p[Len(p)]
                 /\ md[h + 1].k = "blank"
                 /\ IF nf > 0
                    THEN \A i \in 1..nf :
                           /\ md[h + 1 + i].k = "bullet"
                           /\ md[h + 1 + i].nm = files[i][1]
                           /\ md[h + 1 + i].n = files[i][3]
                           /\ md[h + 1 + i].rel = as_posix(p \o <<files[i][1]>>)
                    ELSE md[h + 2].k = "placeholder"
                 /\ md[h + 2 + body].k \notin {"bullet", "placeholder"}
                 /\ \A c \in HeadIdx(md) :
                      (HParent(md, c) = h /\ md[c].n = md[h].n + 1)
                        => c > h + 1 + body
    /\ \A i \in HeadIdx(md) : HPath(md, i) \in NodePaths(tree) \ {<<>>}

NestedDirectorySections ==
  /\ pc = "assembled"
  /\ \E p \in NodePaths(tree) :
       /\ Len(p) = 1
       /\ NodeAt(tree, p).files # <<>>
       /\ \E n \in DOMAIN NodeAt(tree, p).dirs :
            \E h \in HeadingsOf(md, p \o <<n>>) : md[h].n = 4

----------------------------------------------------------------------------
(* The Entry Point section *)

EntryIdx(d) == {i \in 1..Len(d) : d[i].k = "entry"}

(* C10: the Entry Point bullet is present exactly when the root of the     *)
(* tree holds a file record named main.rs, and it shows the line count of  *)
(* that record.                                                            *)
EntryPointMatchesTree ==
  pc = "assembled" =>
    /\ EntryIdx(md) # {} <=> HasRecord(tree, <<main_rs>>)
    /\ HasRecord(tree, <<main_rs>>) =>
         \A i \in EntryIdx(md) : md[i].n = TheRecord(tree, <<main_rs>>)[3]

----------------------------------------------------------------------------
(* The write of the output file *)

(* C6: after a run that ended with an error the output file is what it     *)
(* was before the run: the content of the last full write, or absent.      *)
OutputAllOrNothing == pc = "failed" => Snapshot(fs) = prior

----------------------------------------------------------------------------
(* Two runs in succession *)

SameExceptTimestamp(a, b) ==
  /\ Len(a) = Len(b)
  /\ \A i \in 1..Len(a) :
       (a[i].k = "credit" /\ b[i].k = "credit") \/ a[i] = b[i]

(* C2: when two runs in succession both succeed on an unchanged directory, *)
(* the file after the second run equals the file after the first run       *)
(* except for the timestamp line.                                          *)
SecondRunReproducesFirst ==
  (pc = "done" /\ denied = {} /\ ~reread /\ last.ok)
    => SameExceptTimestamp(fs[OUTPUT_FILE].content, last.doc)

====
